---- MODULE Spec2Model ----
(***************************************************************************)
(* Hospital queue server: the SQLite store of database.js and the express  *)
(* and WebSocket handlers of server.js.                                    *)
(*                                                                         *)
(* Every handler is an async function.  A statement handed to the store    *)
(* (db.run / db.get / db.all) completes at some later moment, and          *)
(* statements of different requests complete in no fixed order: the store  *)
(* is never put in serialized mode and no transaction is opened.  One      *)
(* action of the model is one statement of one request together with the   *)
(* synchronous code that follows it up to the next await.  The             *)
(* continuations that touch the shared set of clients (broadcast, ws.send) *)
(* are actions of their own, since other handlers run between a            *)
(* statement's completion and its callback.                                *)
(***************************************************************************)
EXTENDS Integers, Sequences, FiniteSets, TLC

(* ------------------------------ bounds -------------------------------- *)
NumRegs     == 2   \* register requests of one run
NumUpds     == 2   \* status-update requests of one run
NumObs      == 2   \* WebSocket clients of one run
MaxTime     == 1   \* last tick of the clock
TicksPerDay == 1   \* ticks in one calendar day
MaxFailures == 1   \* statements the store may fail in one run
NumReads    == 1   \* GET requests of one run
MaxCount    == 1000  \* registrations of one department and day run one after another

(* ------------------------- program constants -------------------------- *)
PadWidth == 3      \* padStart(3, '0')
ZeroChar == 48     \* '0'
NoTime   == -1     \* a DATETIME column holding NULL
NaN      == -2     \* undefined + 1
HistoryLimit == 10 \* LIMIT 10 of getPatientHistory

NULL == "NULL"

\* Department identifiers as the character codes of their text.
GEN == <<71, 69, 78>>
ENT == <<69, 78, 84>>
\* a request body without department: the parameter is bound as NULL, and
\* the template literal of generateToken prints it as "undefined"
MissingDepartment == <<>>
UndefinedText == <<117, 110, 100, 101, 102, 105, 110, 101, 100>>
DepartmentSeq == <<GEN, ENT>>
ContactSeq    == <<"555-0001", "555-0002">>
Statuses    == {"Waiting", "In Progress", "Completed", "Cancelled"}

Regs == 1..NumRegs
Upds == 1..NumUpds
Obs  == 1..NumObs
Reads == 1..NumReads

VARIABLES
    patients,     \* table patients, in rowid order
    queue,        \* table queue, in rowid order (queue[i].id = i)
    clients,      \* the Set of connected sockets
    readyState,   \* readyState of each socket
    snapshot,     \* the pending db.getTodayQueue() of each connection
    inbox,        \* messages each socket has been sent, in order
    regs,         \* POST /api/register calls in flight
    upds,         \* PUT /api/queue/:queueId/status calls in flight
    now,          \* the clock
    failures,     \* statements the store has failed
    commits,      \* history: number of committed changes of table queue
    subscribed,   \* history: Len(queue) and commits at clients.add(ws)
    passed,       \* history: the statuses each queue row has held
    reads,        \* GET requests in flight and their results
    sqlite_sequence  \* the AUTOINCREMENT sequence of table patients

vars == <<patients, queue, clients, readyState, snapshot, inbox, regs, upds,
          now, failures, commits, subscribed, passed, reads, sqlite_sequence>>

(* ------------------------------ helpers ------------------------------- *)
Min(a, b) == IF a < b THEN a ELSE b

\* new Date().toISOString().split('T')[0] and DATE(registered_at)
Day(t) == t \div TicksPerDay

\* String(n): the decimal digits of n
RECURSIVE Digits(_)
Digits(n) == IF n < 10 THEN <<ZeroChar + n>>
             ELSE Digits(n \div 10) \o <<ZeroChar + (n % 10)>>

\* s.padStart(len, ch)
PadStart(s, len, ch) ==
    IF Len(s) >= len THEN s
    ELSE [i \in 1..(len - Len(s)) |-> ch] \o s

\* a < b on TEXT values (byte-wise, the shorter of two equal prefixes first)
StrLess(a, b) ==
    \/ \E k \in 1..Min(Len(a), Len(b)) :
          /\ a[k] < b[k]
          /\ \A j \in 1..(k - 1) : a[j] = b[j]
    \/ /\ Len(a) < Len(b)
       /\ \A j \in 1..Len(a) : a[j] = b[j]

Card(S) == Cardinality(S)

\* rows of table queue of one day
QueueIds == 1..Len(queue)
RowsOfDay(day) == {i \in QueueIds : Day(queue[i].registered_at) = day}

\* SELECT * FROM patients WHERE contact = ?   (0: no row)
GetPatientByContact(contact) ==
    IF \E i \in 1..Len(patients) : patients[i].contact = contact
    THEN CHOOSE i \in 1..Len(patients) : patients[i].contact = contact
    ELSE 0

\* INSERT INTO patients ... ON CONFLICT(contact) DO UPDATE SET ...
\* id is AUTOINCREMENT: the statement takes the next value of the sequence,
\* which it also consumes when it ends in DO UPDATE (see AddPatientSequence)
AddPatient(data) ==
    LET i == GetPatientByContact(data.contact) IN
    IF i # 0
    THEN [patients EXCEPT ![i].visit_count = @ + 1, ![i].last_visit = now]
    ELSE Append(patients, [id          |-> sqlite_sequence + 1,
                           name        |-> data.name,
                           contact     |-> data.contact,
                           created_at  |-> now,
                           last_visit  |-> now,
                           visit_count |-> 1])

\* the sequence of table patients after the upsert: one value is consumed by
\* the INSERT and by the DO UPDATE alike
AddPatientSequence == sqlite_sequence + 1

\* JOIN patients p ON q.patient_id = p.id   (0: no row)
GetPatientById(id) ==
    IF \E i \in 1..Len(patients) : patients[i].id = id
    THEN CHOOSE i \in 1..Len(patients) : patients[i].id = id
    ELSE 0

\* the NOT NULL constraints of table patients (name stands for the columns
\* name, age and gender, which the INSERT binds alike)
PatientConstraintsHold(data) ==
    data.name # NULL /\ data.contact # NULL

\* the NOT NULL constraints of table queue
QueueConstraintsHold(department) ==
    department # MissingDepartment

\* a count that leaves out the department filter
CountEntriesOfAllDepartments(department, day) ==
    Card(RowsOfDay(day))

\* SELECT COUNT(*) FROM queue WHERE department = ? AND DATE(registered_at) = ?
CountEntries(department, day) ==
    IF department = MissingDepartment THEN 0
    ELSE Card({i \in RowsOfDay(day) : queue[i].department = department})

\* `${department}${tokenNumber}` for a department with count rows today
TokenOf(department, count) ==
    (IF department = MissingDepartment THEN UndefinedText ELSE department)
        \o PadStart(Digits(count + 1), PadWidth, ZeroChar)

\* generateToken: `${department}${String(count + 1).padStart(3, '0')}`
GenerateToken(department, day) ==
    TokenOf(department, CountEntries(department, day))

\* INSERT INTO queue (patient_id, token, department, symptoms, status)
AddToQueue(patientId, token, department, status) ==
    Append(queue, [id            |-> Len(queue) + 1,
                   patient_id    |-> patientId,
                   token         |-> token,
                   department    |-> department,
                   status        |-> status,
                   registered_at |-> now,
                   called_at     |-> NoTime,
                   completed_at  |-> NoTime])

\* getQueuePosition
GetQueuePosition(token, department, day) ==
    Card({i \in RowsOfDay(day) :
            /\ queue[i].department = department
            /\ queue[i].status = "Waiting"
            /\ StrLess(queue[i].token, token)})

\* updateQueueStatus: UPDATE queue SET status = ?[, called_at = ? | , completed_at = ?] WHERE id = ?
UpdateQueueStatus(queueId, status, timestamp) ==
    IF queueId \notin QueueIds THEN queue
    ELSE IF status = "In Progress"
         THEN [queue EXCEPT ![queueId].status = status, ![queueId].called_at = timestamp]
    ELSE IF status = "Completed"
         THEN [queue EXCEPT ![queueId].status = status, ![queueId].completed_at = timestamp]
    ELSE [queue EXCEPT ![queueId].status = status]

RECURSIVE SelectRows(_, _)
\* getTodayQueue: today's rows joined with their patient, ORDER BY registered_at.
\* Rows are inserted with the current time, so rowid order is registered_at order.
SelectRows(i, day) ==
    IF i > Len(queue) THEN <<>>
    ELSE IF Day(queue[i].registered_at) = day
              /\ GetPatientById(queue[i].patient_id) # 0
         THEN <<[queue_id    |-> queue[i].id,
                 token       |-> queue[i].token,
                 status      |-> queue[i].status,
                 patient_id  |-> queue[i].patient_id,
                 visit_count |-> patients[GetPatientById(queue[i].patient_id)].visit_count]>>
              \o SelectRows(i + 1, day)
         ELSE SelectRows(i + 1, day)
GetTodayQueue(day) == SelectRows(1, day)

RECURSIVE SelectDepartmentRows(_, _, _)
\* getQueueByDepartment: the rows of getTodayQueue with WHERE q.department = ?
SelectDepartmentRows(i, department, day) ==
    IF i > Len(queue) THEN <<>>
    ELSE IF queue[i].department = department
              /\ Day(queue[i].registered_at) = day
              /\ GetPatientById(queue[i].patient_id) # 0
         THEN <<[queue_id    |-> queue[i].id,
                 token       |-> queue[i].token,
                 department  |-> queue[i].department,
                 status      |-> queue[i].status,
                 patient_id  |-> queue[i].patient_id,
                 visit_count |-> patients[GetPatientById(queue[i].patient_id)].visit_count]>>
              \o SelectDepartmentRows(i + 1, department, day)
         ELSE SelectDepartmentRows(i + 1, department, day)
GetQueueByDepartment(department, day) == SelectDepartmentRows(1, department, day)

RECURSIVE SelectHistory(_, _)
\* getPatientHistory: the rows of a patient, ORDER BY registered_at DESC
\* (rows of one registered_at are taken newest rowid first)
SelectHistory(i, patientId) ==
    IF i = 0 THEN <<>>
    ELSE IF queue[i].patient_id = patientId
         THEN <<[token         |-> queue[i].token,
                 department    |-> queue[i].department,
                 status        |-> queue[i].status,
                 registered_at |-> queue[i].registered_at,
                 completed_at  |-> queue[i].completed_at]>>
              \o SelectHistory(i - 1, patientId)
         ELSE SelectHistory(i - 1, patientId)
GetPatientHistory(patientId) ==
    LET h == SelectHistory(Len(queue), patientId) IN
    SubSeq(h, 1, Min(Len(h), HistoryLimit))

\* getStatistics: SELECT COUNT(*) FROM queue WHERE status = ? AND DATE(registered_at) = ?
CountStatus(status, day) ==
    Card({i \in RowsOfDay(day) : queue[i].status = status})
\* getStatistics: SELECT department, COUNT(*), SUM(...) ... GROUP BY department
DepartmentStats(day) ==
    {[department |-> d,
      count      |-> Card({i \in RowsOfDay(day) : queue[i].department = d}),
      waiting    |-> Card({i \in RowsOfDay(day) :
                             queue[i].department = d /\ queue[i].status = "Waiting"}),
      completed  |-> Card({i \in RowsOfDay(day) :
                             queue[i].department = d /\ queue[i].status = "Completed"})]
     : d \in {queue[i].department : i \in RowsOfDay(day)}}

\* history: the Waiting rows of q that share the department and the day of
\* row id and carry a smaller token
WaitingAhead(q, id) ==
    Card({i \in 1..Len(q) :
            /\ i # id
            /\ q[i].department = q[id].department
            /\ Day(q[i].registered_at) = Day(q[id].registered_at)
            /\ q[i].status = "Waiting"
            /\ StrLess(q[i].token, q[id].token)})

(* ------------------------------ messages ------------------------------ *)
\* JSON messages sent over a socket.  seq is history: the number of the
\* committed change an event reports, or the number of changes committed
\* when the rows of a snapshot were read.
InitialQueue(rows, asOf) ==
    [type |-> "INITIAL_QUEUE", rows |-> rows, queueId |-> 0, token |-> <<>>,
     status |-> NULL, patientId |-> 0, position |-> 0, seq |-> asOf]
NewRegistration(req) ==
    [type |-> "NEW_REGISTRATION", rows |-> <<>>, queueId |-> req.queueId,
     token |-> req.token, status |-> "Waiting", patientId |-> req.patientId,
     position |-> req.position, seq |-> req.seq]
StatusUpdate(req) ==
    [type |-> "STATUS_UPDATE", rows |-> <<>>, queueId |-> req.queueId,
     token |-> <<>>, status |-> req.status, patientId |-> 0,
     position |-> 0, seq |-> req.seq]

\* a broadcast that an undeliverable client aborts: the clients after it in
\* the set are not sent the message
BroadcastAbortedByFailure(message) ==
    [o \in Obs |-> IF /\ o \in clients
                      /\ readyState[o] = "OPEN"
                      /\ \A p \in clients : p < o => readyState[p] = "OPEN"
                   THEN Append(inbox[o], message)
                   ELSE inbox[o]]

\* broadcast(message): send to every client whose socket is OPEN
Broadcast(message) ==
    [o \in Obs |-> IF o \in clients /\ readyState[o] = "OPEN"
                   THEN Append(inbox[o], message)
                   ELSE inbox[o]]

(* ------------------------------- state -------------------------------- *)
\* The locals of a register call.  pc names the statement the call awaits;
\* failedAt is the statement that threw.  History: writes counts the statements
\* of the call that changed a table, seq numbers its INSERT among the committed
\* changes, waitingAhead is WaitingAhead at the moment of its INSERT.
\* The locals of a status call: timestamp is taken before the UPDATE is
\* awaited.  History: from is the status the UPDATE replaced.
NoData  == [name |-> NULL, contact |-> NULL, department |-> <<>>]
IdleReg == [pc |-> "idle", data |-> NoData, patientId |-> 0,
            isReturning |-> FALSE, visitCount |-> 0, today |-> 0,
            token |-> <<>>, queueId |-> 0, position |-> 0,
            failedAt |-> "", writes |-> 0, seq |-> 0, waitingAhead |-> 0]
IdleUpd == [pc |-> "idle", queueId |-> 0, status |-> NULL, timestamp |-> 0,
            failedAt |-> "", seq |-> 0, from |-> NULL]
NoSnapshot == [pc |-> "none", today |-> 0, rows |-> <<>>, asOf |-> 0]
\* A GET request: the query it awaits, its parameter, and what it has read.
NoStats == [waiting |-> 0, inProgress |-> 0, completed |-> 0, total |-> 0,
            totalPatients |-> 0, departments |-> {}]
IdleRead == [pc |-> "idle", op |-> "", contact |-> NULL, department |-> <<>>,
             patientId |-> 0, today |-> 0, rows |-> <<>>, stats |-> NoStats,
             failedAt |-> ""]
\* the GET requests tried: route and parameter
ReadInputs ==
    [op : {"queue"}, contact : {NULL}, department : {<<>>}, patientId : {0}]
    \cup [op : {"department"}, contact : {NULL},
          department : {DepartmentSeq[1]}, patientId : {0}]
    \cup [op : {"patient"}, contact : {ContactSeq[1]},
          department : {<<>>}, patientId : {0}]
    \cup [op : {"history"}, contact : {NULL}, department : {<<>>}, patientId : {1}]
    \cup [op : {"waiting"}, contact : {NULL}, department : {<<>>}, patientId : {0}]

\* The request bodies tried.  Contacts and departments are interchangeable, so
\* the k-th request of a run draws from the first k of each.
RegInputs(r) ==
    [name       : {"n"},
     contact    : {ContactSeq[k] : k \in 1..Min(r, Len(ContactSeq))},
     department : {DepartmentSeq[k] : k \in 1..Min(r, Len(DepartmentSeq))}]

\* request bodies that lack a required field
Malformed(data) ==
    data.name = NULL \/ data.contact = NULL \/ data.department = MissingDepartment
MalformedInputs(r) ==
    {data \in [name       : {"n", NULL},
               contact    : {ContactSeq[k] : k \in 1..Min(r, Len(ContactSeq))} \cup {NULL},
               department : {GEN, MissingDepartment}] : Malformed(data)}

Init ==
    /\ patients = <<>>
    /\ queue = <<>>
    /\ clients = {}
    /\ readyState = [o \in Obs |-> "NONE"]
    /\ snapshot = [o \in Obs |-> NoSnapshot]
    /\ inbox = [o \in Obs |-> <<>>]
    /\ regs = [r \in Regs |-> IdleReg]
    /\ upds = [u \in Upds |-> IdleUpd]
    /\ now = 0
    /\ failures = 0
    /\ commits = 0
    /\ subscribed = [o \in Obs |-> [len |-> 0, seq |-> 0]]
    /\ passed = <<>>
    /\ reads = [k \in Reads |-> IdleRead]
    /\ sqlite_sequence = 0

(* ----------------------- POST /api/register --------------------------- *)
RegStorePcs == {"lookup", "upsert", "selectid", "count", "insert", "position"}
\* the request arrives: db.getPatientByContact(patientData.contact) is issued
RegisterStart(r, data) ==
    /\ regs[r].pc = "idle"
    /\ \A q \in 1..(r - 1) : regs[q].pc # "idle"
    /\ regs' = [regs EXCEPT ![r] = [IdleReg EXCEPT !.pc = "lookup", !.data = data]]
    /\ UNCHANGED <<patients, queue, clients, readyState, snapshot, inbox, upds,
                   now, failures, commits, subscribed, passed, reads, sqlite_sequence>>

\* getPatientByContact completes; the handler branches on existingPatient.
\* existingPatient.visitCount is no column of the row (the column is
\* visit_count), so visitCount is undefined + 1.
RegLookup(r) ==
    /\ regs[r].pc = "lookup"
    /\ LET i == GetPatientByContact(regs[r].data.contact) IN
       regs' = [regs EXCEPT ![r] =
                  IF i # 0
                  THEN [@ EXCEPT !.pc = "count", !.patientId = patients[i].id,
                                 !.isReturning = TRUE, !.visitCount = NaN,
                                 !.today = Day(now)]
                  ELSE [@ EXCEPT !.pc = "upsert"]]
    /\ UNCHANGED <<patients, queue, clients, readyState, snapshot, inbox, upds,
                   now, failures, commits, subscribed, passed, reads, sqlite_sequence>>

\* addPatient: the INSERT ... ON CONFLICT statement completes
RegUpsert(r) ==
    /\ regs[r].pc = "upsert"
    /\ IF PatientConstraintsHold(regs[r].data)
       THEN /\ patients' = AddPatient(regs[r].data)
            /\ sqlite_sequence' = AddPatientSequence
            /\ regs' = [regs EXCEPT ![r].pc = "selectid", ![r].writes = @ + 1]
       ELSE /\ UNCHANGED <<patients, sqlite_sequence>>
            /\ regs' = [regs EXCEPT ![r].pc = "failed", ![r].failedAt = "upsert"]
    /\ UNCHANGED <<queue, clients, readyState, snapshot, inbox, upds,
                   now, failures, commits, subscribed, passed, reads>>

\* addPatient: SELECT id completes; generateToken's count is issued
RegSelectId(r) ==
    /\ regs[r].pc = "selectid"
    /\ LET i == GetPatientByContact(regs[r].data.contact) IN
       regs' = [regs EXCEPT ![r].pc = "count", ![r].patientId = patients[i].id,
                            ![r].isReturning = FALSE, ![r].visitCount = 1,
                            ![r].today = Day(now)]
    /\ UNCHANGED <<patients, queue, clients, readyState, snapshot, inbox, upds,
                   now, failures, commits, subscribed, passed, reads, sqlite_sequence>>

\* generateToken: the count completes; addToQueue's INSERT is issued
RegCount(r) ==
    /\ regs[r].pc = "count"
    /\ regs' = [regs EXCEPT ![r].pc = "insert",
                            ![r].token = GenerateToken(regs[r].data.department,
                                                       regs[r].today)]
    /\ UNCHANGED <<patients, queue, clients, readyState, snapshot, inbox, upds,
                   now, failures, commits, subscribed, passed, reads, sqlite_sequence>>

\* addToQueue: the store executes the INSERT (registered_at is its
\* CURRENT_TIMESTAMP)
RegInsert(r) ==
    /\ regs[r].pc = "insert"
    /\ IF QueueConstraintsHold(regs[r].data.department)
       THEN /\ queue' = AddToQueue(regs[r].patientId, regs[r].token,
                                   regs[r].data.department, "Waiting")
            /\ commits' = commits + 1
            /\ regs' = [regs EXCEPT ![r].pc = "inserted",
                                    ![r].queueId = Len(queue) + 1,
                                    ![r].writes = @ + 1,
                                    ![r].seq = commits + 1,
                                    ![r].waitingAhead =
                                        WaitingAhead(queue', Len(queue) + 1)]
            /\ passed' = Append(passed, {"Waiting"})
       ELSE /\ regs' = [regs EXCEPT ![r].pc = "failed", ![r].failedAt = "insert"]
            /\ UNCHANGED <<queue, commits, passed>>
    /\ UNCHANGED <<patients, clients, readyState, snapshot, inbox, upds,
                   now, failures, subscribed, reads, sqlite_sequence>>

\* addToQueue resolves on the event loop: getQueuePosition takes today and
\* issues its count
RegInserted(r) ==
    /\ regs[r].pc = "inserted"
    /\ regs' = [regs EXCEPT ![r].pc = "position", ![r].today = Day(now)]
    /\ UNCHANGED <<patients, queue, clients, readyState, snapshot, inbox, upds,
                   now, failures, commits, subscribed, passed, reads, sqlite_sequence>>

\* getQueuePosition completes
RegPosition(r) ==
    /\ regs[r].pc = "position"
    /\ regs' = [regs EXCEPT ![r].pc = "broadcast",
                            ![r].position = GetQueuePosition(regs[r].token,
                                                             regs[r].data.department,
                                                             regs[r].today)]
    /\ UNCHANGED <<patients, queue, clients, readyState, snapshot, inbox, upds,
                   now, failures, commits, subscribed, passed, reads, sqlite_sequence>>

\* a broadcast that does not wait for addToQueue: the event may leave before
\* the INSERT is committed
RegBroadcastUncommitted(r) ==
    /\ regs[r].pc \in {"insert", "broadcast"}
    /\ inbox' = Broadcast(NewRegistration(regs[r]))
    /\ regs' = [regs EXCEPT ![r].pc = "done"]
    /\ UNCHANGED <<patients, queue, clients, readyState, snapshot, upds,
                   now, failures, commits, subscribed, passed, reads, sqlite_sequence>>

\* broadcast({type: 'NEW_REGISTRATION', ...}); res.json({success: true, ...})
RegBroadcast(r) ==
    /\ regs[r].pc = "broadcast"
    /\ inbox' = Broadcast(NewRegistration(regs[r]))
    /\ regs' = [regs EXCEPT ![r].pc = "done"]
    /\ UNCHANGED <<patients, queue, clients, readyState, snapshot, upds,
                   now, failures, commits, subscribed, passed, reads, sqlite_sequence>>

\* a statement of the request is rejected by the store: catch, status 500
RegFail(r) ==
    /\ regs[r].pc \in RegStorePcs
    /\ failures < MaxFailures
    /\ failures' = failures + 1
    /\ regs' = [regs EXCEPT ![r].pc = "failed", ![r].failedAt = regs[r].pc]
    /\ UNCHANGED <<patients, queue, clients, readyState, snapshot, inbox, upds,
                   now, commits, subscribed, passed, reads, sqlite_sequence>>

(* ------------------ PUT /api/queue/:queueId/status -------------------- *)
\* the request arrives: updateQueueStatus takes the timestamp and issues the UPDATE
UpdateStart(u, queueId, status) ==
    /\ upds[u].pc = "idle"
    /\ \A v \in 1..(u - 1) : upds[v].pc # "idle"
    /\ upds' = [upds EXCEPT ![u] = [IdleUpd EXCEPT !.pc = "update", !.queueId = queueId,
                                                   !.status = status, !.timestamp = now]]
    /\ UNCHANGED <<patients, queue, clients, readyState, snapshot, inbox, regs,
                   now, failures, commits, subscribed, passed, reads, sqlite_sequence>>

\* the UPDATE completes (a WHERE that matches no row is no error)
UpdateExec(u) ==
    /\ upds[u].pc = "update"
    /\ queue' = UpdateQueueStatus(upds[u].queueId, upds[u].status, upds[u].timestamp)
    /\ commits' = IF upds[u].queueId \in QueueIds THEN commits + 1 ELSE commits
    /\ upds' = [upds EXCEPT ![u].pc = "broadcast",
                            ![u].seq = IF upds[u].queueId \in QueueIds
                                       THEN commits + 1 ELSE 0,
                            ![u].from = IF upds[u].queueId \in QueueIds
                                        THEN queue[upds[u].queueId].status ELSE NULL]
    /\ passed' = IF upds[u].queueId \in QueueIds
                  THEN [passed EXCEPT ![upds[u].queueId] = @ \cup {upds[u].status}]
                  ELSE passed
    /\ UNCHANGED <<patients, clients, readyState, snapshot, inbox, regs,
                   now, failures, subscribed, reads, sqlite_sequence>>

\* broadcast({type: 'STATUS_UPDATE', ...}); res.json({success: true})
UpdateBroadcast(u) ==
    /\ upds[u].pc = "broadcast"
    /\ inbox' = Broadcast(StatusUpdate(upds[u]))
    /\ upds' = [upds EXCEPT ![u].pc = "done"]
    /\ UNCHANGED <<patients, queue, clients, readyState, snapshot, regs,
                   now, failures, commits, subscribed, passed, reads, sqlite_sequence>>

\* the UPDATE is rejected by the store: catch, status 500
UpdateFail(u) ==
    /\ upds[u].pc = "update"
    /\ failures < MaxFailures
    /\ failures' = failures + 1
    /\ upds' = [upds EXCEPT ![u].pc = "failed", ![u].failedAt = "update"]
    /\ UNCHANGED <<patients, queue, clients, readyState, snapshot, inbox, regs,
                   now, commits, subscribed, passed, reads, sqlite_sequence>>

(* ------------------------ wss.on('connection') ------------------------ *)
\* clients.add(ws); db.getTodayQueue() is issued
Connect(o) ==
    /\ readyState[o] = "NONE"
    /\ readyState' = [readyState EXCEPT ![o] = "OPEN"]
    /\ clients' = clients \cup {o}
    /\ snapshot' = [snapshot EXCEPT ![o] = [NoSnapshot EXCEPT !.pc = "query",
                                                              !.today = Day(now)]]
    /\ subscribed' = [subscribed EXCEPT ![o] = [len |-> Len(queue), seq |-> commits]]
    /\ UNCHANGED <<patients, queue, inbox, regs, upds, now, failures, commits, passed,
                   reads, sqlite_sequence>>

\* getTodayQueue completes
SnapshotQuery(o) ==
    /\ snapshot[o].pc = "query"
    /\ snapshot' = [snapshot EXCEPT ![o].pc = "send",
                                    ![o].rows = GetTodayQueue(snapshot[o].today),
                                    ![o].asOf = commits]
    /\ UNCHANGED <<patients, queue, clients, readyState, inbox, regs, upds,
                   now, failures, commits, subscribed, passed, reads, sqlite_sequence>>

\* the process ends: calls that have not finished are never answered, none
\* is accepted any more
ExitedCalls(calls) ==
    [c \in DOMAIN calls |-> IF calls[c].pc \in {"done", "failed"}
                            THEN calls[c]
                            ELSE [calls[c] EXCEPT !.pc = "exited"]]

\* getTodayQueue is rejected: the promise has no catch, nothing is sent.  The
\* rejection is unhandled: Node 14 warns and the server goes on; Node 15 and
\* later end the process, which closes every socket (engines: node >= 14).
SnapshotFail(o) ==
    /\ snapshot[o].pc = "query"
    /\ failures < MaxFailures
    /\ failures' = failures + 1
    /\ \/ /\ snapshot' = [snapshot EXCEPT ![o].pc = "failed"]
          /\ UNCHANGED <<clients, readyState, regs, upds, reads>>
       \/ /\ snapshot' = [p \in Obs |->
                            IF p = o THEN [snapshot[p] EXCEPT !.pc = "failed"]
                            ELSE IF snapshot[p].pc \in {"query", "send"}
                                 THEN [snapshot[p] EXCEPT !.pc = "exited"]
                                 ELSE snapshot[p]]
          /\ clients' = {}
          /\ readyState' = [p \in Obs |-> "CLOSED"]
          /\ regs' = ExitedCalls(regs)
          /\ upds' = ExitedCalls(upds)
          /\ reads' = ExitedCalls(reads)
    /\ UNCHANGED <<patients, queue, inbox, now, commits, subscribed, passed, sqlite_sequence>>

\* .then(queue => ws.send({type: 'INITIAL_QUEUE', data: queue}))
SnapshotSend(o) ==
    /\ snapshot[o].pc = "send"
    /\ snapshot' = [snapshot EXCEPT ![o].pc = "sent"]
    /\ inbox' = [inbox EXCEPT ![o] =
                   IF readyState[o] = "OPEN"
                   THEN Append(@, InitialQueue(snapshot[o].rows, snapshot[o].asOf))
                   ELSE @]
    /\ UNCHANGED <<patients, queue, clients, readyState, regs, upds,
                   now, failures, commits, subscribed, passed, reads, sqlite_sequence>>

\* the closing handshake starts: the socket leaves OPEN before 'close' is emitted
BeginClose(o) ==
    /\ readyState[o] = "OPEN"
    /\ readyState' = [readyState EXCEPT ![o] = "CLOSING"]
    /\ UNCHANGED <<patients, queue, clients, snapshot, inbox, regs, upds,
                   now, failures, commits, subscribed, passed, reads, sqlite_sequence>>

\* ws.on('error'): the socket has left OPEN and 'close' is not emitted yet
\* (it follows when the connection has ended); clients.delete(ws)
SocketError(o) ==
    /\ readyState[o] \in {"OPEN", "CLOSING"}
    /\ o \in clients
    /\ readyState' = [readyState EXCEPT ![o] = "CLOSING"]
    /\ clients' = clients \ {o}
    /\ UNCHANGED <<patients, queue, snapshot, inbox, regs, upds,
                   now, failures, commits, subscribed, passed, reads, sqlite_sequence>>

\* ws.on('close'): clients.delete(ws)
Close(o) ==
    /\ readyState[o] \in {"OPEN", "CLOSING"}
    /\ readyState' = [readyState EXCEPT ![o] = "CLOSED"]
    /\ clients' = clients \ {o}
    /\ UNCHANGED <<patients, queue, snapshot, inbox, regs, upds,
                   now, failures, commits, subscribed, passed, reads, sqlite_sequence>>

(* ---------------------------- GET requests ---------------------------- *)
\* a GET request arrives: its handler issues its query (getStatistics its
\* first, the count of Waiting)
ReadStart(k, input) ==
    /\ reads[k].pc = "idle"
    /\ \A j \in 1..(k - 1) : reads[j].pc # "idle"
    /\ reads' = [reads EXCEPT ![k] =
                   [IdleRead EXCEPT !.pc = input.op, !.op = input.op,
                                    !.contact = input.contact,
                                    !.department = input.department,
                                    !.patientId = input.patientId,
                                    !.today = Day(now)]]
    /\ UNCHANGED <<patients, queue, clients, readyState, snapshot, inbox, regs, upds,
                   now, failures, commits, subscribed, passed, sqlite_sequence>>

\* GET /api/queue: getTodayQueue completes
ReadQueue(k) ==
    /\ reads[k].pc = "queue"
    /\ reads' = [reads EXCEPT ![k].pc = "done",
                              ![k].rows = GetTodayQueue(reads[k].today)]
    /\ UNCHANGED <<patients, queue, clients, readyState, snapshot, inbox, regs, upds,
                   now, failures, commits, subscribed, passed, sqlite_sequence>>

\* GET /api/queue/:department: getQueueByDepartment completes
ReadDepartment(k) ==
    /\ reads[k].pc = "department"
    /\ reads' = [reads EXCEPT ![k].pc = "done",
                              ![k].rows = GetQueueByDepartment(reads[k].department,
                                                               reads[k].today)]
    /\ UNCHANGED <<patients, queue, clients, readyState, snapshot, inbox, regs, upds,
                   now, failures, commits, subscribed, passed, sqlite_sequence>>

\* a lookup by contact that goes through the upsert of addPatient
ReadPatientByUpsert(k) ==
    /\ reads[k].pc = "patient"
    /\ patients' = AddPatient([name |-> "n", contact |-> reads[k].contact])
    /\ sqlite_sequence' = AddPatientSequence
    /\ reads' = [reads EXCEPT ![k].pc = "done"]
    /\ UNCHANGED <<queue, clients, readyState, snapshot, inbox, regs, upds,
                   now, failures, commits, subscribed, passed>>

\* GET /api/patient/:contact: getPatientByContact completes
ReadPatient(k) ==
    /\ reads[k].pc = "patient"
    /\ LET i == GetPatientByContact(reads[k].contact) IN
       reads' = [reads EXCEPT ![k].pc = "done",
                              ![k].rows = IF i = 0 THEN <<>> ELSE <<patients[i]>>]
    /\ UNCHANGED <<patients, queue, clients, readyState, snapshot, inbox, regs, upds,
                   now, failures, commits, subscribed, passed, sqlite_sequence>>

\* GET /api/patient/:patientId/history: getPatientHistory completes
ReadHistory(k) ==
    /\ reads[k].pc = "history"
    /\ reads' = [reads EXCEPT ![k].pc = "done",
                              ![k].rows = GetPatientHistory(reads[k].patientId)]
    /\ UNCHANGED <<patients, queue, clients, readyState, snapshot, inbox, regs, upds,
                   now, failures, commits, subscribed, passed, sqlite_sequence>>

\* GET /api/stats, getStatistics: the count of Waiting completes
StatsWaiting(k) ==
    /\ reads[k].pc = "waiting"
    /\ reads' = [reads EXCEPT ![k].pc = "inProgress",
                              ![k].stats.waiting = CountStatus("Waiting", reads[k].today)]
    /\ UNCHANGED <<patients, queue, clients, readyState, snapshot, inbox, regs, upds,
                   now, failures, commits, subscribed, passed, sqlite_sequence>>

\* getStatistics: the count of In Progress completes
StatsInProgress(k) ==
    /\ reads[k].pc = "inProgress"
    /\ reads' = [reads EXCEPT ![k].pc = "completed",
                              ![k].stats.inProgress =
                                  CountStatus("In Progress", reads[k].today)]
    /\ UNCHANGED <<patients, queue, clients, readyState, snapshot, inbox, regs, upds,
                   now, failures, commits, subscribed, passed, sqlite_sequence>>

\* getStatistics: the count of Completed completes
StatsCompleted(k) ==
    /\ reads[k].pc = "completed"
    /\ reads' = [reads EXCEPT ![k].pc = "total",
                              ![k].stats.completed =
                                  CountStatus("Completed", reads[k].today)]
    /\ UNCHANGED <<patients, queue, clients, readyState, snapshot, inbox, regs, upds,
                   now, failures, commits, subscribed, passed, sqlite_sequence>>

\* getStatistics: the count of today's rows completes
StatsTotal(k) ==
    /\ reads[k].pc = "total"
    /\ reads' = [reads EXCEPT ![k].pc = "totalPatients",
                              ![k].stats.total = Card(RowsOfDay(reads[k].today))]
    /\ UNCHANGED <<patients, queue, clients, readyState, snapshot, inbox, regs, upds,
                   now, failures, commits, subscribed, passed, sqlite_sequence>>

\* getStatistics: the count of patients completes
StatsPatients(k) ==
    /\ reads[k].pc = "totalPatients"
    /\ reads' = [reads EXCEPT ![k].pc = "departments",
                              ![k].stats.totalPatients = Len(patients)]
    /\ UNCHANGED <<patients, queue, clients, readyState, snapshot, inbox, regs, upds,
                   now, failures, commits, subscribed, passed, sqlite_sequence>>

\* getStatistics: the GROUP BY department completes; the result is returned
StatsDepartments(k) ==
    /\ reads[k].pc = "departments"
    /\ reads' = [reads EXCEPT ![k].pc = "done",
                              ![k].stats.departments = DepartmentStats(reads[k].today)]
    /\ UNCHANGED <<patients, queue, clients, readyState, snapshot, inbox, regs, upds,
                   now, failures, commits, subscribed, passed, sqlite_sequence>>

\* the queries a GET request may be awaiting
ReadStorePcs == {"queue", "department", "patient", "history", "waiting",
                 "inProgress", "completed", "total", "totalPatients", "departments"}
\* the query a GET request awaits is rejected by the store: catch, status 500
\* (getStatistics throws at its first rejected query and returns nothing)
ReadFail(k) ==
    /\ reads[k].pc \in ReadStorePcs
    /\ failures < MaxFailures
    /\ failures' = failures + 1
    /\ reads' = [reads EXCEPT ![k].pc = "failed", ![k].failedAt = reads[k].pc]
    /\ UNCHANGED <<patients, queue, clients, readyState, snapshot, inbox, regs, upds,
                   now, commits, subscribed, passed, sqlite_sequence>>

\* the clock advances
Tick ==
    /\ now < MaxTime
    /\ now' = now + 1
    /\ UNCHANGED <<patients, queue, clients, readyState, snapshot, inbox, regs, upds,
                   failures, commits, subscribed, passed, reads, sqlite_sequence>>

RegisterNext(R) ==
    \/ \E r \in R : \E data \in RegInputs(r) : RegisterStart(r, data)
    \/ \E r \in R : RegLookup(r)
    \/ \E r \in R : RegUpsert(r)
    \/ \E r \in R : RegSelectId(r)
    \/ \E r \in R : RegCount(r)
    \/ \E r \in R : RegInsert(r)
    \/ \E r \in R : RegInserted(r)
    \/ \E r \in R : RegPosition(r)
    \/ \E r \in R : RegBroadcast(r)

UpdateNext(U) ==
    \/ \E u \in U, queueId \in Regs, status \in Statuses :
          UpdateStart(u, queueId, status)
    \/ \E u \in U : UpdateExec(u)
    \/ \E u \in U : UpdateBroadcast(u)

ObserverNextOf(O) ==
    \/ \E o \in O : Connect(o)
    \/ \E o \in O : SnapshotQuery(o)
    \/ \E o \in O : SnapshotSend(o)
    \/ \E o \in O : BeginClose(o)
    \/ \E o \in O : SocketError(o)
    \/ \E o \in O : Close(o)

ObserverNext == ObserverNextOf(Obs)

ReadNext(K) ==
    \/ \E k \in K : \E input \in ReadInputs : ReadStart(k, input)
    \/ \E k \in K : ReadQueue(k)
    \/ \E k \in K : ReadDepartment(k)
    \/ \E k \in K : ReadPatient(k)
    \/ \E k \in K : ReadHistory(k)
    \/ \E k \in K : StatsWaiting(k)
    \/ \E k \in K : StatsInProgress(k)
    \/ \E k \in K : StatsCompleted(k)
    \/ \E k \in K : StatsTotal(k)
    \/ \E k \in K : StatsPatients(k)
    \/ \E k \in K : StatsDepartments(k)
    \/ \E k \in K : ReadFail(k)

\* every handler of the server
Next ==
    \/ RegisterNext(Regs)
    \/ UpdateNext(Upds)
    \/ ObserverNext
    \/ ReadNext(Reads)
    \/ \E r \in Regs : RegFail(r)
    \/ \E u \in Upds : UpdateFail(u)
    \/ \E o \in Obs : SnapshotFail(o)
    \/ Tick

Spec == Init /\ [][Next]_vars

\* the store and concurrent register requests, with one status update
NextStore ==
    \/ RegisterNext(Regs)
    \/ UpdateNext({1})
    \/ \E r \in Regs : RegFail(r)
    \/ Tick

SpecStore == Init /\ [][NextStore]_vars

\* one queue entry and concurrent status updates
NextStatus ==
    \/ RegisterNext({1})
    \/ UpdateNext(Upds)
    \/ Tick

SpecStatus == Init /\ [][NextStatus]_vars

\* concurrent register requests and one WebSocket client
NextSync ==
    \/ RegisterNext(Regs)
    \/ ObserverNextOf({1})
    \/ Tick

SpecSync == Init /\ [][NextSync]_vars

\* register requests one after another: a request arrives only when every
\* earlier one has been answered
RegisterStartSerial(r, data) ==
    /\ \A q \in Regs : regs[q].pc \in {"idle", "done", "failed"}
    /\ RegisterStart(r, data)

NextSerial ==
    \/ \E r \in Regs : \E data \in RegInputs(r) : RegisterStartSerial(r, data)
    \/ \E r \in Regs : RegLookup(r)
    \/ \E r \in Regs : RegUpsert(r)
    \/ \E r \in Regs : RegSelectId(r)
    \/ \E r \in Regs : RegCount(r)
    \/ \E r \in Regs : RegInsert(r)
    \/ \E r \in Regs : RegInserted(r)
    \/ \E r \in Regs : RegPosition(r)
    \/ \E r \in Regs : RegBroadcast(r)
    \/ Tick

SpecSerial == Init /\ [][NextSerial]_vars

\* concurrent register requests whose bodies may lack a field
NextValidate ==
    \/ RegisterNext(Regs)
    \/ \E r \in Regs : \E data \in MalformedInputs(r) : RegisterStart(r, data)

SpecValidate == Init /\ [][NextValidate]_vars

\* one register request, one status update and the WebSocket clients
NextFanout ==
    \/ RegisterNext({1})
    \/ UpdateNext({1})
    \/ ObserverNext

SpecFanout == Init /\ [][NextFanout]_vars

\* one register request, one status update, one WebSocket client and the
\* GET requests
NextFrame ==
    \/ RegisterNext({1})
    \/ UpdateNext({1})
    \/ ObserverNextOf({1})
    \/ ReadNext(Reads)

SpecFrame == Init /\ [][NextFrame]_vars

\* The store after n register requests of contact 555-0001 and department
\* GEN, each sent when the one before was answered, all at tick 0: one
\* patient (the requests after the first take the branch of a known contact,
\* which writes nothing to table patients) and the rows GEN001, GEN002, ...
\* in rowid order, all Waiting.
PatientsAfter(n) ==
    IF n = 0 THEN <<>>
    ELSE <<[id |-> 1, name |-> "n", contact |-> ContactSeq[1],
            created_at |-> 0, last_visit |-> 0, visit_count |-> 1]>>
QueueAfter(n) ==
    [i \in 1..n |-> [id            |-> i,
                     patient_id    |-> 1,
                     token         |-> TokenOf(GEN, i - 1),
                     department    |-> GEN,
                     status        |-> "Waiting",
                     registered_at |-> 0,
                     called_at     |-> NoTime,
                     completed_at  |-> NoTime]]

\* the server with n such registrations behind it, n below MaxCount
InitTokens ==
    \E n \in 0..(MaxCount - 1) :
        /\ patients = PatientsAfter(n)
        /\ queue = QueueAfter(n)
        /\ sqlite_sequence = IF n = 0 THEN 0 ELSE 1
        /\ commits = n
        /\ passed = [i \in 1..n |-> {"Waiting"}]
        /\ clients = {}
        /\ readyState = [o \in Obs |-> "NONE"]
        /\ snapshot = [o \in Obs |-> NoSnapshot]
        /\ inbox = [o \in Obs |-> <<>>]
        /\ regs = [r \in Regs |-> IdleReg]
        /\ upds = [u \in Upds |-> IdleUpd]
        /\ reads = [k \in Reads |-> IdleRead]
        /\ now = 0
        /\ failures = 0
        /\ subscribed = [o \in Obs |-> [len |-> 0, seq |-> 0]]

\* the next register request of that contact and department, alone
NextTokens == RegisterNext({1})

SpecTokens == InitTokens /\ [][NextTokens]_vars

(* ------------------------------- claims ------------------------------- *)

\* C1: no two queue entries of the same department and calendar day carry
\* the same token, whatever the interleaving of the register requests.
TokensPairwiseDistinct ==
    \A i, j \in QueueIds :
        ( /\ i # j
          /\ queue[i].department = queue[j].department
          /\ Day(queue[i].registered_at) = Day(queue[j].registered_at) )
        => queue[i].token # queue[j].token

ValidTransitions == {<<"Waiting", "In Progress">>, <<"In Progress", "Completed">>}

\* C2: the status of a queue entry changes only from Waiting to In Progress
\* and from In Progress to Completed; every other requested change leaves the
\* status as it was.
OnlyValidTransitions ==
    [][\A i \in QueueIds :
          queue'[i].status # queue[i].status
          => <<queue[i].status, queue'[i].status>> \in ValidTransitions]_vars

\* places of the snapshot and of the events in what an observer was sent
SnapshotsOf(o) == {k \in 1..Len(inbox[o]) : inbox[o][k].type = "INITIAL_QUEUE"}
EventsOf(o)    == {k \in 1..Len(inbox[o]) : inbox[o][k].type # "INITIAL_QUEUE"}

\* C3: an observer that has its snapshot has been sent no event for a change
\* the snapshot already contains (a change committed when the snapshot was
\* read), and has been sent the event of every finished registration the
\* snapshot does not contain.
EachChangeExactlyOnce ==
    \A o \in Obs : \A k \in SnapshotsOf(o) :
        /\ \A j \in EventsOf(o) : inbox[o][j].seq > inbox[o][k].seq
        /\ \A r \in Regs :
              ( /\ regs[r].pc = "done"
                /\ regs[r].seq > inbox[o][k].seq
                /\ readyState[o] = "OPEN" )
              => \E j \in EventsOf(o) : inbox[o][j].seq = regs[r].seq

\* C4: the snapshot sent to an observer holds exactly the entries of its day
\* that were committed when the observer was added to the set of clients.
SnapshotIsSubscriptionTimeView ==
    \A o \in Obs : \A k \in SnapshotsOf(o) :
        {inbox[o][k].rows[j].queue_id : j \in 1..Len(inbox[o][k].rows)}
          = {i \in 1..subscribed[o].len :
                Day(queue[i].registered_at) = snapshot[o].today}

\* C5: the NEW_REGISTRATION events of entries committed after an observer
\* subscribed reach it in the order in which the entries were committed.
RegistrationEventsInCommitOrder ==
    \A o \in Obs : \A j, k \in EventsOf(o) :
        ( /\ j < k
          /\ inbox[o][j].type = "NEW_REGISTRATION"
          /\ inbox[o][k].type = "NEW_REGISTRATION"
          /\ inbox[o][j].queueId > subscribed[o].len
          /\ inbox[o][k].queueId > subscribed[o].len )
        => inbox[o][j].queueId < inbox[o][k].queueId

\* C6: no NEW_REGISTRATION or STATUS_UPDATE event is delivered to an observer
\* before its INITIAL_QUEUE snapshot.
SnapshotBeforeEvents ==
    \A o \in Obs : \A k \in EventsOf(o) :
        \E j \in SnapshotsOf(o) : j < k

RegsQuiet == \A r \in Regs : regs[r].pc \in {"idle", "done"}
RegistrationsOf(contact) ==
    {r \in Regs : regs[r].pc = "done" /\ regs[r].data.contact = contact}

\* C7: there is at most one patient per contact, and once every request has
\* been answered the stored visit count of a patient is the number of
\* registrations made with its contact.
OnePatientAndVisitCount ==
    /\ \A i, j \in 1..Len(patients) :
          patients[i].contact = patients[j].contact => i = j
    /\ RegsQuiet =>
          \A i \in 1..Len(patients) :
              patients[i].visit_count = Card(RegistrationsOf(patients[i].contact))

\* C8: the position a register request returns is the number of Waiting
\* entries of the same department and day with a smaller token at the moment
\* its entry was created.
PositionIsWaitingAheadAtCreation ==
    \A r \in Regs :
        regs[r].pc \in {"broadcast", "done"}
        => regs[r].position = regs[r].waitingAhead

TimestampsTrackStatus ==
    \A i \in QueueIds :
        /\ (queue[i].called_at # NoTime) <=> ("In Progress" \in passed[i])
        /\ (queue[i].completed_at # NoTime) <=> ("Completed" \in passed[i])
TimestampsNeverDecrease ==
    \A i \in QueueIds :
        /\ queue[i].called_at # NoTime => queue'[i].called_at >= queue[i].called_at
        /\ queue[i].completed_at # NoTime
              => queue'[i].completed_at >= queue[i].completed_at

\* C9: called_at is set exactly when the entry has been In Progress,
\* completed_at exactly when it has been Completed, and a timestamp that is
\* set is never cleared or moved back.
TimestampsSetOnceReachedAndKept ==
    []TimestampsTrackStatus /\ [][TimestampsNeverDecrease]_vars

\* C10: a register request that fails has changed neither table.
FailedRegistrationLeavesNoTrace ==
    \A r \in Regs : regs[r].pc = "failed" => regs[r].writes = 0

\* C11: a status update addressed to an id that no queue row has fails: only
\* an UPDATE that found its row reaches the success path of the handler.
UpdateOfMissingEntryFails ==
    \A u \in Upds :
        upds[u].pc \in {"broadcast", "done"} => upds[u].from # NULL

\* C12: a STATUS_UPDATE event is sent only for an update that was applied to
\* an existing entry and followed the state machine.
StatusEventsReportAppliedTransitions ==
    \A o \in Obs : \A k \in EventsOf(o) :
        inbox[o][k].type = "STATUS_UPDATE"
        => \E u \in Upds :
              /\ upds[u].seq = inbox[o][k].seq
              /\ upds[u].from # NULL
              /\ <<upds[u].from, upds[u].status>> \in ValidTransitions

\* the step in which a request runs broadcast(message)
RegBroadcasts(r) == regs[r].pc = "broadcast" /\ regs'[r].pc # "broadcast"
UpdBroadcasts(u) == upds[u].pc = "broadcast" /\ upds'[u].pc # "broadcast"
DeliveredToOpenClients(message) ==
    \A o \in clients :
        readyState[o] = "OPEN" => inbox'[o] = Append(inbox[o], message)

\* C13: a client that cannot be delivered to neither fails the request that
\* broadcasts nor stops the broadcast: the request is answered with success
\* and every open client is sent the event.
DeliveryFailureStaysLocal ==
    [][/\ \A r \in Regs :
             RegBroadcasts(r)
             => /\ regs'[r].pc = "done"
                /\ DeliveredToOpenClients(NewRegistration(regs[r]))
       /\ \A u \in Upds :
             UpdBroadcasts(u)
             => /\ upds'[u].pc = "done"
                /\ DeliveredToOpenClients(StatusUpdate(upds[u]))]_vars

\* a finished broadcast that skipped a client of the set and reached another
SkippedClientWitness ==
    \E r \in Regs : \E o1, o2 \in Obs :
        /\ regs[r].pc = "done"
        /\ o1 # o2
        /\ o1 \in clients
        /\ readyState[o1] = "CLOSING"
        /\ subscribed[o1].seq < regs[r].seq
        /\ \A k \in EventsOf(o1) : inbox[o1][k].seq # regs[r].seq
        /\ \E k \in EventsOf(o2) : inbox[o2][k] = NewRegistration(regs[r])

\* C14: a broadcast removes from the set of clients every client it could
\* not deliver to.
BroadcastDropsFailedClients ==
    [][(\E r \in Regs : RegBroadcasts(r)) \/ (\E u \in Upds : UpdBroadcasts(u))
       => \A o \in clients : readyState[o] # "OPEN" => o \notin clients']_vars

\* C15: in every queue row called_at <= completed_at when both are set, and
\* each of them that is set is >= registered_at.
TimestampsMonotonic ==
    \A i \in QueueIds :
        /\ (queue[i].called_at # NoTime /\ queue[i].completed_at # NoTime)
              => queue[i].called_at <= queue[i].completed_at
        /\ queue[i].called_at # NoTime
              => queue[i].called_at >= queue[i].registered_at
        /\ queue[i].completed_at # NoTime
              => queue[i].completed_at >= queue[i].registered_at

\* C16: a register request whose body lacks a required field is rejected
\* before it changes a table: it writes nothing and never gets as far as a
\* queue entry, a broadcast or a success answer.
MalformedRegistrationIsRejected ==
    \A r \in Regs :
        (regs[r].pc # "idle" /\ Malformed(regs[r].data))
        => /\ regs[r].writes = 0
           /\ regs[r].pc \notin {"inserted", "position", "broadcast", "done"}

\* the number, among the rows of its department, of the row a request inserted
RankInDepartment(r) ==
    Card({i \in 1..regs[r].queueId :
            queue[i].department = regs[r].data.department})
\* the department followed by k as three digits, for k < 10
ThreeDigitToken(department, k) == department \o <<48, 48, 48 + k>>

\* C17: when registrations run one after another within one day, the k-th
\* registration of a department is answered with the department followed by k
\* zero-padded to three digits and, every earlier entry still Waiting, with
\* position k - 1 (GEN001 and 0, then GEN002 and 1).
SerialTokensAndPositions ==
    \A r \in Regs :
        (regs[r].pc = "done" /\ Day(now) = 0 /\ RankInDepartment(r) < 10)
        => /\ regs[r].token = ThreeDigitToken(regs[r].data.department,
                                              RankInDepartment(r))
           /\ regs[r].position = RankInDepartment(r) - 1

\* the second registration of GEN has been answered GEN002 and position 1
SecondRegistrationWitness ==
    \E r \in Regs :
        /\ regs[r].pc = "done"
        /\ Day(now) = 0
        /\ regs[r].token = <<71, 69, 78, 48, 48, 50>>
        /\ regs[r].position = 1

\* the registrations made with the contact of request r up to and including r:
\* the queue rows of its patient up to the row r inserted
RegistrationsSoFar(r) ==
    Card({i \in 1..regs[r].queueId : queue[i].patient_id = regs[r].patientId})

\* C18: the answer of a register request reports isReturning exactly when the
\* patient of its contact existed before the request, reports visitCount equal
\* to the number of registrations made so far with that contact, this one
\* included (1, then 2 for the first re-registration), and the request has
\* created a queue entry of its own bearing the token answered.
AnswerReportsReturningAndVisitCount ==
    \A r \in Regs :
        regs[r].pc = "done"
        => /\ regs[r].isReturning = (RegistrationsSoFar(r) > 1)
           /\ regs[r].visitCount = RegistrationsSoFar(r)
           /\ queue[regs[r].queueId].token = regs[r].token
           /\ \A q \in Regs \ {r} :
                  regs[q].pc = "done" => regs[q].queueId # regs[r].queueId

\* C19: connecting, receiving the snapshot, disconnecting and the GET requests
\* leave the tables patients and queue unchanged: a step that changes either
\* table is the INSERT or UPDATE statement of a register or status request,
\* and moves no connection and no GET request.
OnlyRegisterAndUpdateMutate ==
    [][(patients' # patients \/ queue' # queue)
       => /\ \/ \E r \in Regs : /\ regs[r].pc \in {"upsert", "insert"}
                                /\ regs'[r] # regs[r]
             \/ \E u \in Upds : /\ upds[u].pc = "update"
                                /\ upds'[u] # upds[u]
          /\ reads' = reads
          /\ clients' = clients
          /\ readyState' = readyState
          /\ snapshot' = snapshot]_vars

\* a client has connected, received a snapshot with an entry and disconnected,
\* and a statistics request has counted an entry, the tables holding a patient
\* and the entry
ReadsAndSessionDoneWitness ==
    /\ readyState[1] = "CLOSED"
    /\ snapshot[1].pc = "sent"
    /\ Len(inbox[1]) > 0
    /\ Len(inbox[1][1].rows) = 1
    /\ reads[1].pc = "done"
    /\ reads[1].op = "waiting"
    /\ reads[1].stats.total = 1
    /\ Len(patients) = 1
    /\ Len(queue) = 1

\* C20: within one department and day, register requests run one after
\* another, the token of every earlier entry is lexicographically smaller
\* than the token of a later one, so the position computed by token
\* comparison is the position by registration order, for every number of
\* registrations.
TokenOrderIsRegistrationOrder ==
    \A r \in Regs :
        /\ regs[r].pc \in {"inserted", "position", "broadcast", "done"}
              => \A i \in 1..(regs[r].queueId - 1) :
                    (/\ queue[i].department = queue[regs[r].queueId].department
                     /\ Day(queue[i].registered_at)
                           = Day(queue[regs[r].queueId].registered_at))
                    => StrLess(queue[i].token, queue[regs[r].queueId].token)
        /\ regs[r].pc \in {"broadcast", "done"}
              => regs[r].position
                   = Card({i \in 1..(regs[r].queueId - 1) :
                             /\ queue[i].department = queue[regs[r].queueId].department
                             /\ Day(queue[i].registered_at)
                                   = Day(queue[regs[r].queueId].registered_at)
                             /\ queue[i].status = "Waiting"})

\* C21: a change event is broadcast only after the change it describes is
\* committed: the entry a NEW_REGISTRATION event names is a row of table queue
\* with that id and token, and the UPDATE of the request behind a
\* STATUS_UPDATE event has been executed, the row it matched having held the
\* status of the event.
EventsFollowTheirCommit ==
    \A o \in Obs : \A k \in EventsOf(o) :
        /\ inbox[o][k].type = "NEW_REGISTRATION"
              => /\ inbox[o][k].queueId \in QueueIds
                 /\ queue[inbox[o][k].queueId].token = inbox[o][k].token
        /\ inbox[o][k].type = "STATUS_UPDATE"
              => \E u \in Upds :
                    /\ upds[u].pc \in {"broadcast", "done"}
                    /\ upds[u].queueId = inbox[o][k].queueId
                    /\ upds[u].status = inbox[o][k].status
                    /\ upds[u].from # NULL
                          => inbox[o][k].status \in passed[inbox[o][k].queueId]

\* a client has received the event of a registration and the event of a
\* status update of the entry registered
BothEventsReceivedWitness ==
    \E o \in Obs : \E j, k \in EventsOf(o) :
        /\ inbox[o][j].type = "NEW_REGISTRATION"
        /\ inbox[o][k].type = "STATUS_UPDATE"
        /\ inbox[o][k].queueId = inbox[o][j].queueId

RECURSIVE SumOfCounts(_)
\* the sum of the count column over the rows of a GROUP BY department result
SumOfCounts(S) ==
    IF S = {} THEN 0
    ELSE LET row == CHOOSE x \in S : TRUE IN row.count + SumOfCounts(S \ {row})

\* C22: every result of getStatistics is consistent with itself: waiting +
\* inProgress + completed = total, and the counts of the departments sum to
\* total, whatever requests run between its queries and whatever status a
\* status update has stored.
StatisticsAreConsistent ==
    \A k \in Reads :
        (reads[k].pc = "done" /\ reads[k].op = "waiting")
        => /\ reads[k].stats.waiting + reads[k].stats.inProgress
                  + reads[k].stats.completed = reads[k].stats.total
           /\ SumOfCounts(reads[k].stats.departments) = reads[k].stats.total

====
